---- MODULE Spec2Model ----
(***************************************************************************)
(* The orthogonal force-directed layout engine of odata-viz                *)
(* (util/layout: calculateOrthogonalLayout) as a state machine.            *)
(*                                                                         *)
(* Numbers.  The source computes on JavaScript numbers; the design treats  *)
(* positions as real numbers.  Here every real quantity is a fixed-point   *)
(* integer:                                                                *)
(*   - a coordinate or distance v is the integer v * PosScale;             *)
(*   - a force f is the integer f * ForceScale;                            *)
(*   - a temperature t is the integer t * TempScale;                       *)
(*   - a cooling factor c is the integer c * FactorScale.                  *)
(* Options gridSize and padding are integers in natural units.  Quotients  *)
(* are rounded to the resolution of their scale (see Quot), square roots   *)
(* are truncated to it.                                                    *)
(***************************************************************************)
EXTENDS Integers, Sequences, FiniteSets, TLC

VARIABLES
    nodes,        \* the node array: a sequence of node objects
    edges,        \* the edge array: a sequence of [source, target]
    opts,         \* the options of the running call
    pc,           \* position of the call in the function body
    iteration,    \* loop counter of the for loop
    idx,          \* position of the running forEach in its array
    currentTemp,  \* let currentTemp
    args,         \* the arguments as they were when the call was made
    result,       \* the value returned by the call (the array), or <<>>
    calls,        \* number of calls made so far
    history,      \* the completed calls, oldest first: [args, out] each
    xml,          \* the input handed to new ODataMetadataParser(...)
    parser,       \* the constructed parser (a one-element sequence), or <<>>
    thrown,       \* the message of the Error the constructor threw, or ""
    filter,       \* the diagram's entityTypeFilter property
    error,        \* the uploader's error state (a one-element sequence), or <<>>
    readers       \* the FileReaders made so far, oldest first: [file, state]

\* State of the components upstream of the layout engine.
upstream == <<xml, parser, thrown, filter, error, readers>>

vars == <<nodes, edges, opts, pc, iteration, idx, currentTemp, args, result,
          calls, history, upstream>>

----------------------------------------------------------------------------
(* Resolution of the fixed-point numbers.                                  *)

PosScale == 10
ForceScale == 10000
TempScale == 100
FactorScale == 100

(* Bounds of the model.                                                    *)

MaxNodes == 3
MaxEdges == 1
MaxIterations == 2
MaxCalls == 3
MaxRounds == 22
MaxSchemas == 2
MaxParallel == 3
MaxCrowd == 42
MaxSelections == 3

----------------------------------------------------------------------------
(* Arithmetic on fixed-point numbers.                                      *)

Abs(a) == IF a < 0 THEN -a ELSE a

Min2(a, b) == IF a <= b THEN a ELSE b

Max2(a, b) == IF a >= b THEN a ELSE b

\* a / b for b > 0, rounded away from zero to the resolution of the result
\* (symmetric in the sign of a).  The doubles of the source resolve
\* quantities far below the resolution of the model; rounding away from zero
\* keeps a nonzero quotient nonzero and of the same sign.
Quot(a, b) == IF a >= 0 THEN (a + b - 1) \div b ELSE -((-a + b - 1) \div b)

RECURSIVE SqrtSearch(_, _, _)
SqrtSearch(n, lo, hi) ==
    IF lo >= hi THEN lo
    ELSE LET mid == (lo + hi + 1) \div 2
         IN  IF mid * mid <= n THEN SqrtSearch(n, mid, hi)
                               ELSE SqrtSearch(n, lo, mid - 1)

\* Math.sqrt, truncated: the largest r with r * r <= n.
Sqrt(n) == SqrtSearch(n, 0, Min2(n, 46340))

\* Math.ceil(Math.sqrt(n)) for an integer n >= 0.
CeilSqrt(n) == LET r == Sqrt(n) IN IF r * r = n THEN r ELSE r + 1

\* Mutant of RoundToGrid: the rounded cell index, not scaled back by g.
RoundToGridCells(v, g) == (2 * v + g) \div (2 * g)

\* Math.round(v / g) * g on coordinates: the nearest multiple of g, a tie
\* going up (Math.round rounds half toward +infinity).
RoundToGrid(v, g) == ((2 * v + g) \div (2 * g)) * g

----------------------------------------------------------------------------
(* Options, in the units of the model.                                     *)

GridSize(o) == o.gridSize * PosScale

Padding(o) == o.padding * PosScale

\* const maxMovement = gridSize * 0.5
MaxMovement(o) == (o.gridSize * PosScale) \div 2

\* Mutant of Movement: the clamp is at a whole grid cell, not at half of one.
MovementWide(f, temp, o) ==
    LET m   == GridSize(o)
        k   == (ForceScale * TempScale) \div PosScale
        lim == IF temp > 0 THEN (m * k) \div temp ELSE 0
    IN  IF temp = 0 \/ f = 0 THEN 0
        ELSE IF Abs(f) > lim THEN (IF f > 0 THEN m ELSE -m)
        ELSE Max2(Min2(Quot(f * temp, k), m), -m)

\* Math.max(Math.min(f * currentTemp, maxMovement), -maxMovement), as a
\* displacement of a coordinate.  f * temp is formed only when it is within
\* the clamp, so the product stays in range.
Movement(f, temp, o) ==
    LET m   == MaxMovement(o)
        k   == (ForceScale * TempScale) \div PosScale
        lim == IF temp > 0 THEN (m * k) \div temp ELSE 0
    IN  IF temp = 0 \/ f = 0 THEN 0
        ELSE IF Abs(f) > lim THEN (IF f > 0 THEN m ELSE -m)
        ELSE Max2(Min2(Quot(f * temp, k), m), -m)

----------------------------------------------------------------------------
(* Initializer.                                                            *)

\* Mutant of GridWidth: Math.floor in place of Math.ceil.
GridWidthFloor(n) == Sqrt(n)

\* const gridWidth = Math.ceil(Math.sqrt(nodes.length))
GridWidth(n) == CeilSqrt(n)

InitialX(index, n, o) ==
    (index % GridWidth(n)) * (GridSize(o) * 2 + Padding(o))

InitialY(index, n, o) ==
    (index \div GridWidth(n)) * (GridSize(o) * 2 + Padding(o))

\* Mutant of Initializer: a node that already has a position keeps it, only
\* nodes at the origin are placed.
InitializerKeepsPlaced(ns, o) ==
    [k \in 1..Len(ns) |->
        IF ns[k].x = 0 /\ ns[k].y = 0
        THEN [ns[k] EXCEPT !.x = InitialX(k - 1, Len(ns), o),
                           !.y = InitialY(k - 1, Len(ns), o)]
        ELSE ns[k]]

\* nodes.forEach((node, index) => { node.x = ...; node.y = ... })
Initializer(ns, o) ==
    [k \in 1..Len(ns) |->
        [ns[k] EXCEPT !.x = InitialX(k - 1, Len(ns), o),
                      !.y = InitialY(k - 1, Len(ns), o)]]

----------------------------------------------------------------------------
(* Force Simulator: repulsion.                                             *)

\* Math.sqrt(dx * dx + dy * dy)
Distance(dx, dy) == Sqrt(dx * dx + dy * dy)

\* const minDistance = gridSize * 1.5; distance < minDistance
TooClose(d, o) == 2 * d < 3 * GridSize(o)

\* distance < minDistance ? (gridSize * 4) / (distance * distance)
\*                        : Math.min((gridSize * 2) / (distance * distance), gridSize)
RepulsiveForce(d, o) ==
    LET unit == ForceScale * PosScale * PosScale
    IN  IF TooClose(d, o)
        THEN Quot(o.gridSize * 4 * unit, d * d)
        ELSE Min2(Quot(o.gridSize * 2 * unit, d * d), o.gridSize * ForceScale)

\* Mutant of RepulsionFrom: a coincident pair is pushed apart along x, as
\* layouts that jitter coincident nodes do.
RepulsionFromJitter(node, otherNode, o) ==
    IF node.id = otherNode.id THEN <<0, 0>>
    ELSE LET dx == node.x - otherNode.x
             dy == node.y - otherNode.y
             distance == Distance(dx, dy)
         IN  IF distance > 0
             THEN LET force == RepulsiveForce(distance, o)
                  IN  <<Quot(dx * force, distance), Quot(dy * force, distance)>>
             ELSE <<o.gridSize * ForceScale, 0>>

\* The body of the inner forEach for one otherNode: what it adds to <<fx, fy>>.
RepulsionFrom(node, otherNode, o) ==
    IF node.id = otherNode.id THEN <<0, 0>>
    ELSE LET dx == node.x - otherNode.x
             dy == node.y - otherNode.y
             distance == Distance(dx, dy)
         IN  IF distance > 0
             THEN LET force == RepulsiveForce(distance, o)
                  IN  <<Quot(dx * force, distance), Quot(dy * force, distance)>>
             ELSE <<0, 0>>

\* fx, fy after the inner forEach has visited nodes j..Len(ns).
RECURSIVE NetRepulsion(_, _, _, _)
NetRepulsion(ns, i, j, o) ==
    IF j > Len(ns) THEN <<0, 0>>
    ELSE LET f    == RepulsionFrom(ns[i], ns[j], o)
             rest == NetRepulsion(ns, i, j + 1, o)
         IN  <<f[1] + rest[1], f[2] + rest[2]>>

\* The body of the outer forEach for the node at index i: the array after it.
RepulseNode(ns, i, temp, o) ==
    LET f == NetRepulsion(ns, i, 1, o)
    IN  [ns EXCEPT ![i].x = @ + Movement(f[1], temp, o),
                   ![i].y = @ + Movement(f[2], temp, o)]

----------------------------------------------------------------------------
(* Force Simulator: attraction.                                            *)

\* Mutant of Find: an identifier no node carries falls back to the first node.
FindOrFirst(ns, id) ==
    LET S == {k \in 1..Len(ns) : ns[k].id = id}
    IN  IF S # {} THEN CHOOSE k \in S : \A l \in S : k <= l
        ELSE IF Len(ns) > 0 THEN 1 ELSE 0

\* nodes.find(n => n.id === id): the index of the first match, 0 for undefined.
RECURSIVE FindFrom(_, _, _)
FindFrom(ns, id, k) ==
    IF k > Len(ns) THEN 0
    ELSE IF ns[k].id = id THEN k
    ELSE FindFrom(ns, id, k + 1)

\* (the recursion is FindFrom)
Find(ns, id) == FindFrom(ns, id, 1)

\* Math.min(distance / (gridSize * 2), gridSize * 0.5)
AttractiveForce(d, o) ==
    Min2(Quot(d * ForceScale, o.gridSize * 2 * PosScale),
         (o.gridSize * ForceScale) \div 2)

\* The displacement <<mx, my>> the edge applies: added to the source and
\* subtracted from the target.
AttractionMove(sourceNode, targetNode, temp, o) ==
    LET dx == targetNode.x - sourceNode.x
        dy == targetNode.y - sourceNode.y
        distance == Distance(dx, dy)
    IN  IF distance > 0
        THEN LET force == AttractiveForce(distance, o)
                 fx == Quot(dx * force, distance)
                 fy == Quot(dy * force, distance)
             IN  <<Movement(fx, temp, o), Movement(fy, temp, o)>>
        ELSE <<0, 0>>

\* Mutant of AttractEdge: the guard is inverted, an edge with both endpoints
\* present is skipped.
AttractEdgeSkipped(ns, edge, temp, o) == ns

\* Mutant of AttractEdge: only the source is moved, the target stays.
AttractEdgeSourceOnly(ns, edge, temp, o) ==
    LET s == Find(ns, edge.source)
        t == Find(ns, edge.target)
    IN  IF s = 0 \/ t = 0 THEN ns
        ELSE LET m == AttractionMove(ns[s], ns[t], temp, o)
             IN  [ns EXCEPT ![s].x = @ + m[1], ![s].y = @ + m[2]]

\* The body of edges.forEach for one edge: the node array after it.
AttractEdge(ns, edge, temp, o) ==
    LET s == Find(ns, edge.source)
        t == Find(ns, edge.target)
    IN  IF s = 0 \/ t = 0 THEN ns
        ELSE LET m == AttractionMove(ns[s], ns[t], temp, o)
             IN  [ns EXCEPT ![s].x = @ + m[1], ![s].y = @ + m[2],
                            ![t].x = @ - m[1], ![t].y = @ - m[2]]

----------------------------------------------------------------------------
(* Grid Snapper.                                                           *)

\* <<Math.round(Math.cos(angle) * r), Math.round(Math.sin(angle) * r)>> for
\* angle = (i * Math.PI) / (r * 4), in the order the loops visit them:
\* r = 1 (i = 0..7), r = 2 (i = 0..15), r = 3 (i = 0..23).  The values are
\* those of IEEE double arithmetic, where Math.cos(Math.PI / 3) * 3 is just
\* above 1.5 and Math.sin(Math.PI / 6) * 3 just below it.
SpiralOffsets ==
    << <<1, 0>>, <<1, 1>>, <<0, 1>>, <<-1, 1>>,
       <<-1, 0>>, <<-1, -1>>, <<0, -1>>, <<1, -1>>,
       <<2, 0>>, <<2, 1>>, <<1, 1>>, <<1, 2>>,
       <<0, 2>>, <<-1, 2>>, <<-1, 1>>, <<-2, 1>>,
       <<-2, 0>>, <<-2, -1>>, <<-1, -1>>, <<-1, -2>>,
       <<0, -2>>, <<1, -2>>, <<1, -1>>, <<2, -1>>,
       <<3, 0>>, <<3, 1>>, <<3, 1>>, <<2, 2>>,
       <<2, 3>>, <<1, 3>>, <<0, 3>>, <<-1, 3>>,
       <<-1, 3>>, <<-2, 2>>, <<-3, 1>>, <<-3, 1>>,
       <<-3, 0>>, <<-3, -1>>, <<-3, -1>>, <<-2, -2>>,
       <<-2, -3>>, <<-1, -3>>, <<0, -3>>, <<1, -3>>,
       <<2, -3>>, <<2, -2>>, <<3, -2>>, <<3, -1>> >>

\* Math.abs(dx) < gridSize && Math.abs(dy) < gridSize against otherNode's
\* current position.
Conflicts(px, py, otherNode, o) ==
    /\ Abs(px - otherNode.x) < GridSize(o)
    /\ Abs(py - otherNode.y) < GridSize(o)

\* nodes.some(otherNode => otherNode.id !== node.id && conflict):
\* nodes.every(...) of the spiral search is its negation.
HasOverlap(ns, i, px, py, o) ==
    \E j \in 1..Len(ns) :
        /\ ns[j].id # ns[i].id
        /\ Conflicts(px, py, ns[j], o)

\* Mutant of SpiralSearch: the loops do not stop at the first success, the
\* last conflict-free candidate wins.
RECURSIVE SpiralSearchLast(_, _, _, _, _, _)
SpiralSearchLast(ns, i, roundedX, roundedY, k, o) ==
    IF k > Len(SpiralOffsets) THEN <<roundedX, roundedY>>
    ELSE LET testX == roundedX + SpiralOffsets[k][1] * GridSize(o)
             testY == roundedY + SpiralOffsets[k][2] * GridSize(o)
             later == SpiralSearchLast(ns, i, roundedX, roundedY, k + 1, o)
         IN  IF later # <<roundedX, roundedY>> THEN later
             ELSE IF ~HasOverlap(ns, i, testX, testY, o) THEN <<testX, testY>>
             ELSE <<roundedX, roundedY>>

\* Mutant of SpiralSearch: when no candidate is free the node is left at the
\* last candidate tried.
RECURSIVE SpiralSearchKeepLast(_, _, _, _, _, _)
SpiralSearchKeepLast(ns, i, roundedX, roundedY, k, o) ==
    IF k > Len(SpiralOffsets)
    THEN <<roundedX + SpiralOffsets[Len(SpiralOffsets)][1] * GridSize(o),
           roundedY + SpiralOffsets[Len(SpiralOffsets)][2] * GridSize(o)>>
    ELSE LET testX == roundedX + SpiralOffsets[k][1] * GridSize(o)
             testY == roundedY + SpiralOffsets[k][2] * GridSize(o)
         IN  IF ~HasOverlap(ns, i, testX, testY, o)
             THEN <<testX, testY>>
             ELSE SpiralSearchKeepLast(ns, i, roundedX, roundedY, k + 1, o)

\* Mutant of SpiralSearch: the radius counts double cells.
RECURSIVE SpiralSearchWide(_, _, _, _, _, _)
SpiralSearchWide(ns, i, roundedX, roundedY, k, o) ==
    IF k > Len(SpiralOffsets) THEN <<roundedX, roundedY>>
    ELSE LET testX == roundedX + SpiralOffsets[k][1] * 2 * GridSize(o)
             testY == roundedY + SpiralOffsets[k][2] * 2 * GridSize(o)
         IN  IF ~HasOverlap(ns, i, testX, testY, o)
             THEN <<testX, testY>>
             ELSE SpiralSearchWide(ns, i, roundedX, roundedY, k + 1, o)

\* Mutant of SpiralSearch: no candidate is tried.
SpiralSearchGiveUp(ns, i, roundedX, roundedY, k, o) == <<roundedX, roundedY>>

\* The spiral search from candidate k on: the first conflict-free candidate,
\* or the rounded position when none is left.
RECURSIVE SpiralSearch(_, _, _, _, _, _)
SpiralSearch(ns, i, roundedX, roundedY, k, o) ==
    IF k > Len(SpiralOffsets) THEN <<roundedX, roundedY>>
    ELSE LET testX == roundedX + SpiralOffsets[k][1] * GridSize(o)
             testY == roundedY + SpiralOffsets[k][2] * GridSize(o)
         IN  IF ~HasOverlap(ns, i, testX, testY, o)
             THEN <<testX, testY>>
             ELSE SpiralSearch(ns, i, roundedX, roundedY, k + 1, o)

\* Mutant of SnapPosition: the spiral search starts from the position the
\* forces left, not from the rounded one.
SnapPositionSpiralFromRaw(ns, i, o) ==
    LET roundedX == RoundToGrid(ns[i].x, GridSize(o))
        roundedY == RoundToGrid(ns[i].y, GridSize(o))
    IN  IF HasOverlap(ns, i, roundedX, roundedY, o)
        THEN SpiralSearch(ns, i, ns[i].x, ns[i].y, 1, o)
        ELSE <<roundedX, roundedY>>

\* The position the snap gives the node at index i.
SnapPosition(ns, i, o) ==
    LET roundedX == RoundToGrid(ns[i].x, GridSize(o))
        roundedY == RoundToGrid(ns[i].y, GridSize(o))
    IN  IF HasOverlap(ns, i, roundedX, roundedY, o)
        THEN SpiralSearch(ns, i, roundedX, roundedY, 1, o)
        ELSE <<roundedX, roundedY>>

\* The body of the snapping forEach for the node at index i.
SnapNode(ns, i, o) ==
    LET p == SnapPosition(ns, i, o)
    IN  [ns EXCEPT ![i].x = p[1], ![i].y = p[2]]

\* Mutant of Cool: the factor is applied twice in a round.
CoolTwice(temp, o) ==
    (((temp * o.coolingFactor) \div FactorScale) * o.coolingFactor)
        \div FactorScale

\* currentTemp *= coolingFactor
Cool(temp, o) == (temp * o.coolingFactor) \div FactorScale

----------------------------------------------------------------------------
(* Centering Normalizer.                                                   *)

\* Math.min(...nodes.map(n => n.x)) for a non-empty array.
MinX(ns) ==
    LET S == {ns[k].x : k \in 1..Len(ns)}
    IN  CHOOSE m \in S : \A v \in S : m <= v

\* Math.min(...nodes.map(n => n.y)) for a non-empty array.
MinY(ns) ==
    LET S == {ns[k].y : k \in 1..Len(ns)}
    IN  CHOOSE m \in S : \A v \in S : m <= v

\* Mutant of Center: the translation leaves the padding out.
CenterNoPadding(ns, o) ==
    IF Len(ns) = 0 THEN ns
    ELSE LET S == {ns[k].x : k \in 1..Len(ns)}
             T == {ns[k].y : k \in 1..Len(ns)}
             minX == CHOOSE m \in S : \A v \in S : m <= v
             minY == CHOOSE m \in T : \A v \in T : m <= v
         IN  [k \in 1..Len(ns) |->
                [ns[k] EXCEPT !.x = @ - minX, !.y = @ - minY]]

\* Mutant of Center: the padding enters the translation with the wrong sign.
CenterWrongSign(ns, o) ==
    IF Len(ns) = 0 THEN ns
    ELSE LET S == {ns[k].x : k \in 1..Len(ns)}
             T == {ns[k].y : k \in 1..Len(ns)}
             minX == CHOOSE m \in S : \A v \in S : m <= v
             minY == CHOOSE m \in T : \A v \in T : m <= v
         IN  [k \in 1..Len(ns) |->
                [ns[k] EXCEPT !.x = @ - (minX + Padding(o)),
                              !.y = @ - (minY + Padding(o))]]

\* Mutant of Center: the minimum is taken anew for every node, over the
\* array as the earlier turns of the forEach left it.
RECURSIVE CenterFrom(_, _, _)
CenterFrom(ns, k, o) ==
    IF k > Len(ns) THEN ns
    ELSE CenterFrom([ns EXCEPT ![k].x = @ - (MinX(ns) - Padding(o)),
                               ![k].y = @ - (MinY(ns) - Padding(o))],
                    k + 1, o)

CenterLiveMinimum(ns, o) == CenterFrom(ns, 1, o)

\* nodes.forEach(node => { node.x -= minX - padding; node.y -= minY - padding })
\* On an empty array the forEach has nothing to visit.
Center(ns, o) ==
    IF Len(ns) = 0 THEN ns
    ELSE LET minX == MinX(ns)
             minY == MinY(ns)
         IN  [k \in 1..Len(ns) |->
                [ns[k] EXCEPT !.x = @ - (minX - Padding(o)),
                              !.y = @ - (minY - Padding(o))]]

----------------------------------------------------------------------------
(* Arguments of a call.                                                    *)

\* Defaults of the destructured options.
DefaultGridSize == 100
DefaultPadding == 50
DefaultMaxIterations == 100
DefaultTemperature == 100
\* coolingFactor = 0.95, in units of 1 / FactorScale
DefaultCoolingFactor == 95

NodeIds == <<"A", "B", "C", "D", "E", "F">>

\* An identifier no node carries.
Absent == "Z"

\* Size the diagram component gives every node.
NodeWidth == 350
NodeHeight == 100

\* A node object as the caller builds it.  ref stands for the identity of
\* the object: two objects with equal fields are still two objects.
NodeObject(k, x0, y0) ==
    [ref |-> k, id |-> NodeIds[k], x |-> x0, y |-> y0,
     width |-> NodeWidth, height |-> NodeHeight,
     data |-> <<"EntityType", NodeIds[k]>>]

\* The array of n nodes, every node at the position the caller starts from.
NodeArray(n) == [k \in 1..n |-> NodeObject(k, 0, 0)]

\* Identifiers an edge may name for an array of n nodes.
EdgeNames(n) == {NodeIds[k] : k \in 1..n} \cup {Absent}

EdgeSet(n) == [source : EdgeNames(n), target : EdgeNames(n)]

EdgeLists(n) == UNION {[1..k -> EdgeSet(n)] : k \in 0..MaxEdges}

\* Grid size, padding and temperature of the calls of the model.  With the
\* default grid size: the default padding, none, and the padding that makes
\* the Initializer's spacing 2 * gridSize + padding vanish, each at the
\* default temperature and at a low one.  With a small grid size, where the
\* default temperature is high against the grid: half the grid size and the
\* vanishing spacing.
Settings ==
    {<<DefaultGridSize, p, t>> :
        p \in {DefaultPadding, 0, -2 * DefaultGridSize},
        t \in {DefaultTemperature * TempScale, 1 * TempScale}}
    \cup {<<10, p, DefaultTemperature * TempScale>> : p \in {5, -20}}

Options ==
    {[gridSize |-> s[1], padding |-> s[2], maxIterations |-> m,
      temperature |-> s[3], coolingFactor |-> DefaultCoolingFactor] :
        s \in Settings, m \in 0..MaxIterations}

----------------------------------------------------------------------------
(* The call as a state machine.                                            *)

\* The first call of a run, with arguments ns, es, o.  The locals of the
\* function (iteration, idx, currentTemp) do not exist yet.
FirstCall(ns, es, o) ==
    /\ nodes = ns
    /\ edges = es
    /\ opts = o
    /\ pc = "init"
    /\ iteration = 0
    /\ idx = 0
    /\ currentTemp = 0
    /\ args = [nodes |-> ns, edges |-> es, opts |-> o]
    /\ result = <<>>
    /\ calls = 1
    /\ history = <<>>
    /\ xml = <<>>
    /\ parser = <<>>
    /\ thrown = ""
    /\ filter = <<>>
    /\ error = <<>>
    /\ readers = <<>>

Init ==
    \E n \in 0..MaxNodes : \E es \in EdgeLists(n) : \E o \in Options :
        FirstCall(NodeArray(n), es, o)

\* Mutant of InitialTemp: the temperature is set once and then kept across
\* calls, as a variable outside the function would be.
InitialTempStale(o, prev) == IF prev = 0 THEN o.temperature ELSE prev

\* let currentTemp = temperature; prev is whatever an earlier call left.
InitialTemp(o, prev) == o.temperature

\* Lines 36-46: the Initializer, then let currentTemp = temperature.
Initialize ==
    /\ pc = "init"
    /\ nodes' = Initializer(nodes, opts)
    /\ currentTemp' = InitialTemp(opts, currentTemp)
    /\ iteration' = 0
    /\ pc' = "loop"
    /\ UNCHANGED <<edges, opts, idx, args, result, calls, history>>
    /\ UNCHANGED upstream

\* Mutant of LoopTest: the loop runs while iteration <= maxIterations.
LoopTestInclusive ==
    /\ pc = "loop"
    /\ IF iteration <= opts.maxIterations
       THEN pc' = "repulse" /\ idx' = 1
       ELSE pc' = "center" /\ idx' = 0
    /\ UNCHANGED <<nodes, edges, opts, iteration, currentTemp, args, result,
                   calls, history>>
    /\ UNCHANGED upstream

\* Line 47: the test of the for loop.
LoopTest ==
    /\ pc = "loop"
    /\ IF iteration < opts.maxIterations
       THEN pc' = "repulse" /\ idx' = 1
       ELSE pc' = "center" /\ idx' = 0
    /\ UNCHANGED <<nodes, edges, opts, iteration, currentTemp, args, result,
                   calls, history>>
    /\ UNCHANGED upstream

\* Lines 49-75: one turn of the repulsion forEach.
Repulse ==
    /\ pc = "repulse"
    /\ idx <= Len(nodes)
    /\ nodes' = RepulseNode(nodes, idx, currentTemp, opts)
    /\ idx' = idx + 1
    /\ UNCHANGED <<edges, opts, pc, iteration, currentTemp, args, result,
                   calls, history>>
    /\ UNCHANGED upstream

RepulseDone ==
    /\ pc = "repulse"
    /\ idx > Len(nodes)
    /\ pc' = "attract"
    /\ idx' = 1
    /\ UNCHANGED <<nodes, edges, opts, iteration, currentTemp, args, result,
                   calls, history>>
    /\ UNCHANGED upstream

\* Lines 78-101: one turn of the attraction forEach.
Attract ==
    /\ pc = "attract"
    /\ idx <= Len(edges)
    /\ nodes' = AttractEdge(nodes, edges[idx], currentTemp, opts)
    /\ idx' = idx + 1
    /\ UNCHANGED <<edges, opts, pc, iteration, currentTemp, args, result,
                   calls, history>>
    /\ UNCHANGED upstream

AttractDone ==
    /\ pc = "attract"
    /\ idx > Len(edges)
    /\ pc' = "snap"
    /\ idx' = 1
    /\ UNCHANGED <<nodes, edges, opts, iteration, currentTemp, args, result,
                   calls, history>>
    /\ UNCHANGED upstream

\* Lines 104-151: one turn of the snapping forEach.
Snap ==
    /\ pc = "snap"
    /\ idx <= Len(nodes)
    /\ nodes' = SnapNode(nodes, idx, opts)
    /\ idx' = idx + 1
    /\ UNCHANGED <<edges, opts, pc, iteration, currentTemp, args, result,
                   calls, history>>
    /\ UNCHANGED upstream

SnapDone ==
    /\ pc = "snap"
    /\ idx > Len(nodes)
    /\ pc' = "cool"
    /\ idx' = 0
    /\ UNCHANGED <<nodes, edges, opts, iteration, currentTemp, args, result,
                   calls, history>>
    /\ UNCHANGED upstream

\* Mutant of CoolDown: the centering sits inside the loop body and runs at
\* the end of every round.
CoolDownAndCentre ==
    /\ pc = "cool"
    /\ nodes' = Center(nodes, opts)
    /\ currentTemp' = Cool(currentTemp, opts)
    /\ iteration' = iteration + 1
    /\ pc' = "loop"
    /\ UNCHANGED <<edges, opts, idx, args, result, calls, history>>
    /\ UNCHANGED upstream

\* Line 154 and the iteration++ of line 47.
CoolDown ==
    /\ pc = "cool"
    /\ currentTemp' = Cool(currentTemp, opts)
    /\ iteration' = iteration + 1
    /\ pc' = "loop"
    /\ UNCHANGED <<nodes, edges, opts, idx, args, result, calls, history>>
    /\ UNCHANGED upstream

\* Lines 157-166: the Centering Normalizer.
Centre ==
    /\ pc = "center"
    /\ nodes' = Center(nodes, opts)
    /\ pc' = "return"
    /\ UNCHANGED <<edges, opts, iteration, idx, currentTemp, args, result,
                   calls, history>>
    /\ UNCHANGED upstream

\* Mutant of Returned: a new array of copies of the node objects.
ReturnedCopies(ns) == [k \in 1..Len(ns) |-> [ns[k] EXCEPT !.ref = @ + Len(ns)]]

\* The array the return statement hands back.
Returned(ns) == ns

\* Line 168: return nodes.
Return ==
    /\ pc = "return"
    /\ result' = Returned(nodes)
    /\ history' = Append(history, [args |-> args, out |-> Returned(nodes)])
    /\ pc' = "done"
    /\ UNCHANGED <<nodes, edges, opts, iteration, idx, currentTemp, args,
                   calls>>
    /\ UNCHANGED upstream

Next ==
    \/ Initialize
    \/ LoopTest
    \/ Repulse
    \/ RepulseDone
    \/ Attract
    \/ AttractDone
    \/ Snap
    \/ SnapDone
    \/ CoolDown
    \/ Centre
    \/ Return

Spec == Init /\ [][Next]_vars

----------------------------------------------------------------------------
(* The function as a whole: what one call computes from its arguments,     *)
(* composed of the same steps in the order of the function body.           *)

\* nodes.forEach of lines 49-75, from index i on.
RECURSIVE RepulsionPass(_, _, _, _)
RepulsionPass(ns, i, temp, o) ==
    IF i > Len(ns) THEN ns
    ELSE RepulsionPass(RepulseNode(ns, i, temp, o), i + 1, temp, o)

\* edges.forEach of lines 78-101, from index k on.
RECURSIVE AttractionPass(_, _, _, _, _)
AttractionPass(ns, es, k, temp, o) ==
    IF k > Len(es) THEN ns
    ELSE AttractionPass(AttractEdge(ns, es[k], temp, o), es, k + 1, temp, o)

\* nodes.forEach of lines 104-151, from index i on.
RECURSIVE SnapPass(_, _, _)
SnapPass(ns, i, o) ==
    IF i > Len(ns) THEN ns
    ELSE SnapPass(SnapNode(ns, i, o), i + 1, o)

\* The for loop of line 47 from round it on.
RECURSIVE Rounds(_, _, _, _, _)
Rounds(ns, es, temp, it, o) ==
    IF it >= o.maxIterations THEN ns
    ELSE Rounds(SnapPass(AttractionPass(RepulsionPass(ns, 1, temp, o),
                                        es, 1, temp, o), 1, o),
                es, Cool(temp, o), it + 1, o)

Layout(ns, es, o) ==
    Center(Rounds(Initializer(ns, o), es, InitialTemp(o, 0), 0, o), o)

----------------------------------------------------------------------------
(* Two connected nodes, default options but for the number of rounds.      *)

ConvergeOptions(m) ==
    [gridSize |-> DefaultGridSize, padding |-> DefaultPadding,
     maxIterations |-> m, temperature |-> DefaultTemperature * TempScale,
     coolingFactor |-> DefaultCoolingFactor]

InitConverge ==
    \E m \in 20..MaxRounds :
        FirstCall(NodeArray(2),
                  <<[source |-> NodeIds[1], target |-> NodeIds[2]]>>,
                  ConvergeOptions(m))

SpecConverge == InitConverge /\ [][Next]_vars

\* Calls on several nodes with two edges, each from any name to any name:
\* edges in either direction, parallel edges, self-loops and edges that name
\* no node, in either order.
EdgePairs(n) == {<<e, f>> : e \in EdgeSet(n), f \in EdgeSet(n)}

InitEdges ==
    \E n \in 2..MaxNodes : \E es \in EdgePairs(n) : \E o \in Options :
        FirstCall(NodeArray(n), es, o)

SpecEdges == InitEdges /\ [][Next]_vars

\* Calls on several nodes with two edges that both name the first node, as
\* source or as target: parallel and opposite edges, a fan, self-loops and
\* edges whose other end names no node.
EdgesAtFirst(n) ==
    {e \in EdgeSet(n) : NodeIds[1] \in {e.source, e.target}}

InitTouch ==
    \E n \in 2..MaxNodes : \E e \in EdgesAtFirst(n) : \E f \in EdgesAtFirst(n) :
        \E o \in Options :
            FirstCall(NodeArray(n), <<e, f>>, o)

SpecTouch == InitTouch /\ [][Next]_vars

\* Calls where several edges join the same two nodes, each in either
\* direction, as several navigation properties between two entity types do.
Bundles ==
    [1..MaxParallel -> {[source |-> NodeIds[1], target |-> NodeIds[2]],
                        [source |-> NodeIds[2], target |-> NodeIds[1]]}]

InitParallel ==
    \E n \in 2..MaxNodes : \E es \in Bundles : \E o \in Options :
        FirstCall(NodeArray(n), es, o)

SpecParallel == InitParallel /\ [][Next]_vars

\* Calls on a crowd: so many nodes that the spiral of one of them has no free
\* cell left.  The padding makes the Initializer's spacing vanish, the nodes
\* start on one point and the snap pass hands out the cells around it.
CrowdObject(k) ==
    [ref |-> k, id |-> ToString(k), x |-> 0, y |-> 0,
     width |-> NodeWidth, height |-> NodeHeight,
     data |-> <<"EntityType", ToString(k)>>]

CrowdArray(n) == [k \in 1..n |-> CrowdObject(k)]

CrowdOptions ==
    {o \in Options : 2 * o.gridSize + o.padding = 0}

CrowdEdges ==
    {<<>>, <<[source |-> ToString(1), target |-> ToString(2)]>>}

InitCrowd ==
    \E n \in (MaxCrowd - 1)..MaxCrowd : \E es \in CrowdEdges :
        \E o \in CrowdOptions :
            FirstCall(CrowdArray(n), es, o)

SpecCrowd == InitCrowd /\ [][Next]_vars

\* Calls on two joined nodes that differ in temperature, cooling factor and
\* number of rounds: the default factor, a strong one, none (1) and one above
\* 1, which heats.
CoolingFactors == {DefaultCoolingFactor, 50, FactorScale, 105}

CoolingOptions ==
    {[gridSize |-> DefaultGridSize, padding |-> DefaultPadding,
      maxIterations |-> m, temperature |-> t * TempScale,
      coolingFactor |-> c] :
        m \in 0..(MaxIterations + 1),
        t \in {DefaultTemperature, 200},
        c \in CoolingFactors}

InitCooling ==
    \E o \in CoolingOptions :
        FirstCall(NodeArray(2),
                  <<[source |-> NodeIds[1], target |-> NodeIds[2]]>>, o)

SpecCooling == InitCooling /\ [][Next]_vars

\* The call is one synchronous function body with no suspension point: once
\* entered it keeps taking its next step until it returns.
\* Weak fairness of the call's steps, WF_vars(Next), with ENABLED <<Next>>_vars
\* written out: a step is possible exactly until the call has returned.
RunFairness == []<>(pc = "done") \/ []<><<Next>>_vars

SpecRun == Init /\ [][Next]_vars /\ RunFairness

----------------------------------------------------------------------------
(* Several calls, one after another.                                       *)

\* The default temperature, and one at which a round of cooling decides on
\* which side of a cell boundary a doubly attracted node is snapped.
CallTemperatures == {DefaultTemperature * TempScale, 23 * TempScale}

CallOptions ==
    {[gridSize |-> DefaultGridSize, padding |-> DefaultPadding,
      maxIterations |-> 1, temperature |-> t,
      coolingFactor |-> DefaultCoolingFactor] : t \in CallTemperatures}

CallEdges ==
    {<<>>, <<[source |-> NodeIds[1], target |-> NodeIds[2]],
             [source |-> NodeIds[1], target |-> NodeIds[2]]>>}

InitCalls ==
    \E n \in 1..2 : \E es \in CallEdges : \E o \in CallOptions :
        FirstCall(NodeArray(n), es, o)

\* The caller invokes the function again: on a fresh array, or on the array
\* the previous call returned.  The locals of the previous call are gone;
\* the variables that stand for them keep whatever it left.
Invoke ==
    /\ pc = "done"
    /\ calls < MaxCalls
    /\ \E n \in 1..2 : \E es \in CallEdges : \E o \in CallOptions :
       \E ns \in {NodeArray(n)} \cup {a \in {result} : Len(a) = n} :
          /\ nodes' = ns
          /\ edges' = es
          /\ opts' = o
          /\ args' = [nodes |-> ns, edges |-> es, opts |-> o]
    /\ pc' = "init"
    /\ result' = <<>>
    /\ calls' = calls + 1
    /\ UNCHANGED <<iteration, idx, currentTemp, history>>
    /\ UNCHANGED upstream

NextCalls == Next \/ Invoke

SpecCalls == InitCalls /\ [][NextCalls]_vars

\* Calls on two joined nodes that differ in what the nodes carry on entry:
\* fresh nodes, nodes with other positions, sizes and data, and the nodes a
\* previous call returned.
PlacedObject(k) ==
    [ref |-> k, id |-> NodeIds[k], x |-> 70 * k * PosScale,
     y |-> -130 * PosScale, width |-> 120, height |-> 40 * k,
     data |-> <<"ComplexType", NodeIds[k]>>]

PlacedArray(n) == [k \in 1..n |-> PlacedObject(k)]

EntryArrays(n) == {NodeArray(n), PlacedArray(n)}

EntryEdges == <<[source |-> NodeIds[1], target |-> NodeIds[2]]>>

InitEntry ==
    \E ns \in EntryArrays(2) : \E o \in CallOptions :
        FirstCall(ns, EntryEdges, o)

\* The caller invokes the function again, on any of the entry arrays or on
\* the array the previous call returned.
InvokeEntry ==
    /\ pc = "done"
    /\ calls < MaxCalls
    /\ \E o \in CallOptions : \E ns \in EntryArrays(2) \cup {result} :
          /\ nodes' = ns
          /\ opts' = o
          /\ args' = [nodes |-> ns, edges |-> edges, opts |-> o]
    /\ pc' = "init"
    /\ result' = <<>>
    /\ calls' = calls + 1
    /\ UNCHANGED <<edges, iteration, idx, currentTemp, history>>
    /\ UNCHANGED upstream

NextEntry == Next \/ InvokeEntry

SpecEntry == InitEntry /\ [][NextEntry]_vars

----------------------------------------------------------------------------
(* The metadata parser (util/parser).                                      *)
(*                                                                         *)
(* Strings.  A dotted name is the sequence of its parts, as split('.')     *)
(* gives them: "Trip.Pin.Product" is <<"Trip", "Pin", "Product">> and the  *)
(* empty string is <<"">>; <<>> stands for undefined.  A type reference is *)
(* a dotted name inside a number of Collection(...) wrappers.  An array is *)
(* a sequence; a property that is absent is the empty sequence.            *)

Undefined == <<>>

EmptyString == <<"">>

\* !s for s a string or undefined
Falsy(s) == s = Undefined \/ s = EmptyString

\* The string "Collection(" ... ")" w times around the dotted name.
TypeRef(w, name) == [wraps |-> w, parts |-> name]

\* entityTypeName.startsWith('Collection(') && entityTypeName.endsWith(')')
isCollection(t) == t.wraps > 0

\* isCollection(t) ? t.slice(11, -1) : t
stripCollection(t) ==
    IF isCollection(t) THEN [t EXCEPT !.wraps = @ - 1] ELSE t

\* if (!entityType.Namespace) return entityType.Name;
\* return `${entityType.Namespace}.${entityType.Name}`
getFullEntityTypeName(entityType) ==
    IF Falsy(entityType.Namespace) THEN TypeRef(0, entityType.Name)
    ELSE TypeRef(0, entityType.Namespace \o entityType.Name)

\* A Map as the set of its <<key, value>> entries.
MapHas(map, key) == \E e \in map : e[1] = key

MapGet(map, key) == (CHOOSE e \in map : e[1] = key)[2]

MapSet(map, key, value) ==
    {e \in map : e[1] # key} \cup {<<key, value>>}

\* expandTypeReference: a collection is expanded inside its wrapper; a name
\* of exactly two parts whose first part is a known alias gets the alias
\* replaced by its namespace.
RECURSIVE expandTypeReference(_, _)
expandTypeReference(aliases, t) ==
    IF isCollection(t)
    THEN LET inner == expandTypeReference(aliases, stripCollection(t))
         IN  [inner EXCEPT !.wraps = @ + 1]
    ELSE IF Len(t.parts) = 2 /\ MapHas(aliases, <<t.parts[1]>>)
         THEN TypeRef(0, MapGet(aliases, <<t.parts[1]>>) \o <<t.parts[2]>>)
         ELSE t

\* The forEach of lines 108-123 on one schema: the alias is recorded when
\* the schema has a Namespace and an Alias.
AliasesAfter(aliases, schema) ==
    IF ~Falsy(schema.Namespace) /\ ~Falsy(schema.Alias)
    THEN MapSet(aliases, schema.Alias, schema.Namespace)
    ELSE aliases

\* namespaceAliases after the forEach has visited schemas k..Len(schemas).
RECURSIVE NamespaceAliases(_, _, _)
NamespaceAliases(aliases, schemas, k) ==
    IF k > Len(schemas) THEN aliases
    ELSE NamespaceAliases(AliasesAfter(aliases, schemas[k]), schemas, k + 1)

\* Mutant of StampNamespace: every entity type gets the Namespace of the
\* first schema of the document.
StampNamespaceOfFirst(schema, first) ==
    IF ~Falsy(first.Namespace)
    THEN [schema EXCEPT !.EntityType =
             [k \in 1..Len(@) |-> [@[k] EXCEPT !.Namespace = first.Namespace]]]
    ELSE schema

\* The forEach of lines 108-123 on one schema: entityType.Namespace =
\* schema.Namespace for each of its entity types, when it has a Namespace.
StampNamespace(schema, first) ==
    IF ~Falsy(schema.Namespace)
    THEN [schema EXCEPT !.EntityType =
             [k \in 1..Len(@) |-> [@[k] EXCEPT !.Namespace = schema.Namespace]]]
    ELSE schema

\* Mutant of getEntityTypes: the entity types of a schema are put in front
\* of those gathered so far.
RECURSIVE getEntityTypesReversed(_, _)
getEntityTypesReversed(schemas, k) ==
    IF k > Len(schemas) THEN <<>>
    ELSE getEntityTypesReversed(schemas, k + 1) \o schemas[k].EntityType

\* getEntityTypes: schemas.reduce((entityTypes, schema) =>
\*     [...entityTypes, ...schema.EntityType], []), from schema k on.
RECURSIVE getEntityTypes(_, _)
getEntityTypes(schemas, k) ==
    IF k > Len(schemas) THEN <<>>
    ELSE schemas[k].EntityType \o getEntityTypes(schemas, k + 1)

\* The outcome of the constructor: the Error thrown, or the parser built.
ThrowError(message) == [error |-> message, parser |-> <<>>]

Constructed(p) == [error |-> "", parser |-> <<p>>]

InvalidInput == "Invalid input: XML string is required"

FailedToParse == "Failed to parse XML"

MissingElements ==
    "Invalid OData metadata: Missing required elements (edmx:Edmx, edmx:DataServices, or Schema)"

\* Mutant of parseMetadata: the structure of the document is not validated.
parseMetadataUnvalidated(x) ==
    IF x.type # "string" \/ x.text.empty THEN ThrowError(InvalidInput)
    ELSE IF x.text.threw THEN ThrowError(FailedToParse)
    ELSE LET raw     == x.text.Schema
             schemas == [k \in 1..Len(raw) |-> StampNamespace(raw[k], raw[1])]
         IN  Constructed([metadata |-> schemas,
                          namespaceAliases |-> NamespaceAliases({}, raw, 1),
                          entityTypes |-> getEntityTypes(schemas, 1)])

\* constructor and parseMetadata, lines 56-130.  x is the argument: its type
\* and, for a string, its text; the text of a document is given by what the
\* XML parser makes of it (it throws, or returns a tree that has or lacks
\* the edmx:Edmx, edmx:DataServices and Schema elements).  The fields the
\* properties below do not read (_entitySets, _entityTypeMap) are left out.
parseMetadata(x) ==
    IF x.type # "string" \/ x.text.empty THEN ThrowError(InvalidInput)
    ELSE IF x.text.threw THEN ThrowError(FailedToParse)
    ELSE IF ~(x.text.edmx /\ x.text.services /\ x.text.Schema # <<>>)
    THEN ThrowError(MissingElements)
    ELSE LET raw     == x.text.Schema
             schemas == [k \in 1..Len(raw) |-> StampNamespace(raw[k], raw[1])]
         IN  Constructed([metadata |-> schemas,
                          namespaceAliases |-> NamespaceAliases({}, raw, 1),
                          entityTypes |-> getEntityTypes(schemas, 1)])

----------------------------------------------------------------------------
(* The diagram component (components/EntityRelationshipDiagram), which     *)
(* calls the layout engine.                                                *)

\* A pattern new RegExp(...) rejects.
InvalidPattern == <<"(">>

\* regex.test(s) for the pattern made of one part: it occurs in s.
RegexTest(pattern, s) == \E k \in 1..Len(s) : <<s[k]>> = pattern

\* The useMemo of lines 238-251: the entity types the diagram shows.
FilteredTypes(types, entityTypeFilter) ==
    IF Falsy(entityTypeFilter) \/ entityTypeFilter = InvalidPattern THEN types
    ELSE SelectSeq(types, LAMBDA entityType :
             \/ RegexTest(entityTypeFilter, entityType.Name)
             \/ (/\ ~Falsy(entityType.Namespace)
                 /\ RegexTest(entityTypeFilter, entityType.Namespace)))

\* Lines 285-292: one node per entity type.
Entities(types) ==
    [k \in 1..Len(types) |->
        [ref |-> k, id |-> getFullEntityTypeName(types[k]), x |-> 0, y |-> 0,
         width |-> NodeWidth, height |-> NodeHeight, data |-> types[k]]]

\* (entityType.NavigationProperty ?? []).map(navProp => ({source, target}))
\* for the entity type at index k, lines 296-299.
EdgesOf(types, k) ==
    LET navs == types[k].NavigationProperty
    IN  [n \in 1..Len(navs) |->
            [source |-> getFullEntityTypeName(types[k]),
             target |-> stripCollection(navs[n].Type)]]

\* entityTypes.flatMap(...), from index k on.
RECURSIVE GraphEdges(_, _)
GraphEdges(types, k) ==
    IF k > Len(types) THEN <<>>
    ELSE EdgesOf(types, k) \o GraphEdges(types, k + 1)

\* The options of lines 303-309.
GraphOptions ==
    [gridSize |-> 300, padding |-> 100, maxIterations |-> 200,
     temperature |-> 200 * TempScale, coolingFactor |-> DefaultCoolingFactor]

\* new ODataMetadataParser(xml): the parser is built, or the Error thrown.
Construct ==
    /\ pc = "new"
    /\ LET r == parseMetadata(xml)
       IN  /\ parser' = r.parser
           /\ thrown' = r.error
           /\ pc' = IF r.error = "" THEN "mounted" ELSE "threw"
    /\ UNCHANGED <<nodes, edges, opts, iteration, idx, currentTemp, args,
                   result, calls, history, xml, filter, error, readers>>

\* showGraph, lines 283-309, run once when the diagram is mounted: the nodes
\* and the edges are built and calculateOrthogonalLayout is called on them;
\* the call then runs as the steps of Next.  What follows the call hands the
\* positions to the graph widget.
ShowGraph ==
    /\ pc = "mounted"
    /\ LET types    == FilteredTypes(parser[1].entityTypes, filter)
           entities == Entities(types)
           es       == GraphEdges(types, 1)
       IN  /\ nodes' = entities
           /\ edges' = es
           /\ opts' = GraphOptions
           /\ args' = [nodes |-> entities, edges |-> es, opts |-> GraphOptions]
    /\ result' = <<>>
    /\ calls' = calls + 1
    /\ pc' = "init"
    /\ UNCHANGED <<iteration, idx, currentTemp, history, upstream>>

\* Before the constructor runs: no call of the layout engine has been made.
BeforeConstruct(x, f) ==
    /\ xml = x
    /\ parser = <<>>
    /\ thrown = ""
    /\ filter = f
    /\ error = <<>>
    /\ readers = <<>>
    /\ pc = "new"
    /\ nodes = <<>>
    /\ edges = <<>>
    /\ opts = GraphOptions
    /\ iteration = 0
    /\ idx = 0
    /\ currentTemp = 0
    /\ args = [nodes |-> <<>>, edges |-> <<>>, opts |-> GraphOptions]
    /\ result = <<>>
    /\ calls = 0
    /\ history = <<>>

----------------------------------------------------------------------------
(* Inputs of the constructor.                                              *)

Demo == <<"Demo">>

TripPin == <<"Trip", "Pin">>

Odd == <<"odd">>

\* Namespace and Alias of a Schema element: no Namespace, an empty one, a
\* Namespace of one part or of two, with or without an Alias.
SchemaHeads ==
    {<<Undefined, Undefined>>, <<EmptyString, Undefined>>,
     <<Demo, Undefined>>, <<Demo, Odd>>, <<TripPin, Undefined>>}

\* Type of a navigation property: Category by alias or by namespace, alone
\* or in a collection.
NavTypes ==
    {TypeRef(0, Odd \o <<"Category">>), TypeRef(1, Odd \o <<"Category">>),
     TypeRef(0, Demo \o <<"Category">>), TypeRef(1, TripPin \o <<"Category">>)}

NavLists ==
    {<<>>} \cup {<<[Name |-> <<"Category">>, Type |-> t]>> : t \in NavTypes}

\* An EntityType element as the XML parser returns it.
EntityTypeElement(name, navs) ==
    [Name |-> <<name>>, Namespace |-> Undefined, NavigationProperty |-> navs]

\* The EntityType elements of a schema: none, Product, or Product and
\* Category; Product with or without a navigation property.
TypeLists ==
    {<<>>}
    \cup {<<EntityTypeElement("Product", navs)>> : navs \in NavLists}
    \cup {<<EntityTypeElement("Product", navs),
            EntityTypeElement("Category", <<>>)>> : navs \in NavLists}

SchemaElements ==
    {[Namespace |-> h[1], Alias |-> h[2], EntityType |-> l] :
        h \in SchemaHeads, l \in TypeLists}

\* What the XML parser makes of a text.
Text(empty, threw, edmx, services, schemas) ==
    [empty |-> empty, threw |-> threw, edmx |-> edmx, services |-> services,
     Schema |-> schemas]

NoText == Text(TRUE, FALSE, FALSE, FALSE, <<>>)

\* Arguments that are no string, and the empty string.
NoDocuments ==
    {[type |-> t, text |-> NoText] :
        t \in {"null", "undefined", "number", "object", "string"}}

\* Texts the XML parser throws on, and texts whose tree lacks edmx:Edmx,
\* edmx:DataServices or Schema.
BadDocuments ==
    {[type |-> "string", text |-> Text(FALSE, TRUE, FALSE, FALSE, <<>>)]}
    \cup {[type |-> "string", text |-> Text(FALSE, FALSE, e[1], e[2], <<>>)] :
             e \in {<<FALSE, FALSE>>, <<TRUE, FALSE>>, <<TRUE, TRUE>>}}

\* Metadata documents of one schema or more.
Documents ==
    {[type |-> "string", text |-> Text(FALSE, FALSE, TRUE, TRUE, l)] :
        l \in UNION {[1..k -> SchemaElements] : k \in 1..MaxSchemas}}

Inputs == NoDocuments \cup BadDocuments \cup Documents

InitParser == \E x \in Inputs : BeforeConstruct(x, EmptyString)

SpecParser == InitParser /\ [][Construct]_vars

\* The diagram's filter: none, a name, a namespace part, a broken pattern.
Filters == {EmptyString, <<"Product">>, Demo, InvalidPattern}

\* Metadata documents of one schema.
DiagramDocuments ==
    {[type |-> "string", text |-> Text(FALSE, FALSE, TRUE, TRUE, <<e>>)] :
        e \in SchemaElements}

InitDiagram ==
    \E x \in DiagramDocuments \cup BadDocuments : \E f \in Filters :
        BeforeConstruct(x, f)

NextDiagram == Construct \/ ShowGraph \/ Next

SpecDiagram == InitDiagram /\ [][NextDiagram]_vars

----------------------------------------------------------------------------
(* The uploader component (components/ODataMetadataUploader), which reads  *)
(* the selected file and constructs the parser.                            *)

ErrorReadingFile == "Error reading file"

\* Metadata texts of one schema, with one entity type or two.
UploadSchemas ==
    {[Namespace |-> Demo, Alias |-> Undefined, EntityType |-> l] :
        l \in {<<EntityTypeElement("Product", <<>>)>>,
               <<EntityTypeElement("Product", <<>>),
                 EntityTypeElement("Category", <<>>)>>}}

\* What a file of the user holds: nothing, a text the constructor throws
\* on, or metadata.
UploadTexts ==
    {NoText}
    \cup {x.text : x \in BadDocuments}
    \cup {Text(FALSE, FALSE, TRUE, TRUE, <<e>>) : e \in UploadSchemas}

\* The files the user may select: files the FileReader reads, and one it
\* fails to read.
Files ==
    {[readable |-> TRUE, text |-> t] : t \in UploadTexts}
    \cup {[readable |-> FALSE, text |-> NoText]}

\* event.target.files of a change event: no file, or the file selected.
FileLists == {<<>>} \cup {<<f>> : f \in Files}

\* The file input is part of what the component renders while the parser
\* state is null (line 31); with a parser the children are rendered instead.
InputRendered == parser = <<>>

\* new FileReader() with its callbacks set and readAsText(file) started.
NewReader(file) == [file |-> file, state |-> "loading"]

\* handleFileUpload, lines 9-29, up to the return of reader.readAsText: with
\* a file the error is reset and a read is started; the callbacks run later.
HandleFileUpload ==
    /\ pc = "upload"
    /\ InputRendered
    /\ Len(readers) < MaxSelections
    /\ \E files \in FileLists :
          IF Len(files) > 0
          THEN /\ error' = <<>>
               /\ readers' = Append(readers, NewReader(files[1]))
          ELSE UNCHANGED <<error, readers>>
    /\ UNCHANGED <<nodes, edges, opts, pc, iteration, idx, currentTemp, args,
                   result, calls, history, xml, parser, thrown, filter>>

\* The parser and error states after reader.onload, lines 14-22, where r is
\* the outcome of the constructor and e the error state before: on success
\* setParser alone is called, in the catch block setError and
\* setParser(null).  The constructor throws Error objects only, so the
\* message is error.message.
OnLoadState(r, e) ==
    IF r.error = ""
    THEN [parser |-> r.parser, error |-> e]
    ELSE [parser |-> <<>>, error |-> <<r.error>>]

\* reader.onload of the k-th reader: the read has succeeded.
OnLoad ==
    /\ pc = "upload"
    /\ \E k \in 1..Len(readers) :
          /\ readers[k].state = "loading"
          /\ readers[k].file.readable
          /\ LET xmlContent == [type |-> "string", text |-> readers[k].file.text]
                 s == OnLoadState(parseMetadata(xmlContent), error)
             IN  /\ parser' = s.parser
                 /\ error' = s.error
          /\ readers' = [readers EXCEPT ![k].state = "done"]
    /\ UNCHANGED <<nodes, edges, opts, pc, iteration, idx, currentTemp, args,
                   result, calls, history, xml, thrown, filter>>

\* reader.onerror of the k-th reader, lines 23-26: the read has failed.
OnError ==
    /\ pc = "upload"
    /\ \E k \in 1..Len(readers) :
          /\ readers[k].state = "loading"
          /\ ~readers[k].file.readable
          /\ readers' = [readers EXCEPT ![k].state = "done"]
    /\ error' = <<ErrorReadingFile>>
    /\ parser' = <<>>
    /\ UNCHANGED <<nodes, edges, opts, pc, iteration, idx, currentTemp, args,
                   result, calls, history, xml, thrown, filter>>

\* The component as mounted: useState(null) twice, no file selected yet.
InitUploader ==
    /\ parser = <<>>
    /\ error = <<>>
    /\ readers = <<>>
    /\ pc = "upload"
    /\ xml = <<>>
    /\ thrown = ""
    /\ filter = <<>>
    /\ nodes = <<>>
    /\ edges = <<>>
    /\ opts = GraphOptions
    /\ iteration = 0
    /\ idx = 0
    /\ currentTemp = 0
    /\ args = [nodes |-> <<>>, edges |-> <<>>, opts |-> GraphOptions]
    /\ result = <<>>
    /\ calls = 0
    /\ history = <<>>

NextUploader == HandleFileUpload \/ OnLoad \/ OnError

SpecUploader == InitUploader /\ [][NextUploader]_vars

----------------------------------------------------------------------------
(* Properties.                                                             *)

Done == pc = "done"

Count == Len(nodes)

\* The Initializer's spacing between neighbouring columns and rows.
Spacing(o) == 2 * GridSize(o) + Padding(o)

IsMultiple(v, g) == v % g = 0

\* C1, as stated: every node of the returned collection has x and y that
\* are integer multiples of gridSize.
C1_GridAligned ==
    Done => \A k \in 1..Count :
                /\ IsMultiple(nodes[k].x, GridSize(opts))
                /\ IsMultiple(nodes[k].y, GridSize(opts))

\* C1, amended: after at least one round every returned node lies on the
\* grid translated by padding: x - padding and y - padding are integer
\* multiples of gridSize.
C1_GridAlignedUpToPadding ==
    (Done /\ opts.maxIterations >= 1) =>
        \A k \in 1..Count :
            /\ IsMultiple(nodes[k].x - Padding(opts), GridSize(opts))
            /\ IsMultiple(nodes[k].y - Padding(opts), GridSize(opts))

\* A returned layout of several nodes, after a round, with a padding that is
\* no multiple of the grid size and a node away from the corner.
C1_Witness ==
    /\ Done
    /\ opts.maxIterations >= 1
    /\ Count >= 2
    /\ ~IsMultiple(Padding(opts), GridSize(opts))
    /\ \E k \in 1..Count : nodes[k].x > Padding(opts)

\* C2: for a non-empty node list the minimum x and the minimum y of the
\* returned nodes both equal padding exactly.
C2_MinIsPadding ==
    (Done /\ Count >= 1) =>
        /\ \A k \in 1..Count : nodes[k].x >= Padding(opts)
        /\ \E k \in 1..Count : nodes[k].x = Padding(opts)
        /\ \A k \in 1..Count : nodes[k].y >= Padding(opts)
        /\ \E k \in 1..Count : nodes[k].y = Padding(opts)

\* A returned layout whose minimum was not at the origin before centering:
\* some node went below zero during the rounds.
C2_Witness ==
    /\ Done
    /\ Count >= 2
    /\ opts.maxIterations >= 1
    /\ Padding(opts) > 0
    /\ \E k \in 1..Count : nodes[k].x > Padding(opts)
    /\ \E k \in 1..Count : nodes[k].y > Padding(opts)

Positions(ns) == [k \in 1..Len(ns) |-> <<ns[k].x, ns[k].y>>]

HasNode(ns, id) == \E k \in 1..Len(ns) : ns[k].id = id

Dangling(ns, e) == ~HasNode(ns, e.source) \/ ~HasNode(ns, e.target)

RemoveAt(seq, k) == [j \in 1..(Len(seq) - 1) |-> IF j < k THEN seq[j] ELSE seq[j + 1]]

\* C3: an edge whose source or target is the id of no node does not change
\* the returned positions: they are those of the same call without that edge.
C3_DanglingEdgeIgnored ==
    Done => \A k \in 1..Len(args.edges) :
                Dangling(args.nodes, args.edges[k]) =>
                    Positions(result) =
                        Positions(Layout(args.nodes, RemoveAt(args.edges, k),
                                         args.opts))

\* A finished call of at least one round on several nodes whose edge list
\* holds a dangling edge and an edge between two different nodes.
C3_Witness ==
    /\ Done
    /\ opts.maxIterations >= 1
    /\ Count >= 2
    /\ \E k \in 1..Len(edges) : Dangling(nodes, edges[k])
    /\ \E k \in 1..Len(edges) :
          /\ ~Dangling(nodes, edges[k])
          /\ edges[k].source # edges[k].target

\* C4: two calls with equal arguments return equal positions, whatever calls
\* were made before or between them.
C4_Deterministic ==
    \A i, j \in 1..Len(history) :
        history[i].args = history[j].args => history[i].out = history[j].out

\* Two completed calls with equal arguments and, between them, a call with
\* other arguments and another result; the calls ran a round on two
\* connected nodes.
C4_Witness ==
    /\ Len(history) >= 3
    /\ history[1].args = history[3].args
    /\ history[2].args # history[1].args
    /\ Len(history[1].args.nodes) = 2
    /\ Len(history[1].args.edges) = 2
    /\ history[1].out # history[2].out

\* C5: for a list of exactly one node and no edges the returned array holds
\* exactly that node, at (padding, padding), whatever the other options.
C5_SingleNode ==
    (Done /\ Len(args.nodes) = 1 /\ args.edges = <<>>) =>
        /\ Len(result) = 1
        /\ result[1].id = args.nodes[1].id
        /\ result[1].x = Padding(opts)
        /\ result[1].y = Padding(opts)

\* A finished call on one node and no edges that ran at least one round,
\* with a padding other than zero.
C5_Witness ==
    /\ Done
    /\ Len(args.nodes) = 1
    /\ args.edges = <<>>
    /\ opts.maxIterations >= 1
    /\ opts.padding # 0

\* ceil(sqrt(n)), stated on its own: the least c with c * c >= n.
Columns(n) == CHOOSE c \in 0..n : c * c >= n /\ \A b \in 0..(c - 1) : b * b < n

GridX(k, n, o) == ((k - 1) % Columns(n)) * Spacing(o)

GridY(k, n, o) == ((k - 1) \div Columns(n)) * Spacing(o)

LeastOf(S) == CHOOSE m \in S : \A v \in S : m <= v

\* C6: with maxIterations = 0 no repulsion, attraction, snapping or cooling
\* step runs, and the node at index i is returned at its grid placement
\* translated by the centering step only.
C6_NoIterations ==
    opts.maxIterations = 0 =>
        /\ pc \notin {"repulse", "attract", "snap", "cool"}
        /\ Done =>
              LET n  == Count
                  mx == LeastOf({GridX(k, n, opts) : k \in 1..n})
                  my == LeastOf({GridY(k, n, opts) : k \in 1..n})
              IN  \A k \in 1..n :
                      /\ result[k].x = GridX(k, n, opts) - mx + Padding(opts)
                      /\ result[k].y = GridY(k, n, opts) - my + Padding(opts)

\* A finished call with maxIterations = 0 on three or more nodes and an edge
\* between two different nodes.
C6_Witness ==
    /\ Done
    /\ opts.maxIterations = 0
    /\ Count >= 3
    /\ \E k \in 1..Len(edges) :
          /\ ~Dangling(nodes, edges[k])
          /\ edges[k].source # edges[k].target

SquaredDistance(a, b) == (a.x - b.x) * (a.x - b.x) + (a.y - b.y) * (a.y - b.y)

\* C7: nodes A and B joined by the edge A -> B, gridSize 100, the other
\* options default, 20 rounds or more: the returned nodes are closer than
\* the grid placement put them (2 * gridSize + padding) and do not coincide.
C7_TwoNodesConverge ==
    Done =>
        /\ SquaredDistance(result[1], result[2]) < Spacing(opts) * Spacing(opts)
        /\ SquaredDistance(result[1], result[2]) > 0

\* The call on A, B and the edge A -> B has returned after 20 rounds or more.
C7_Witness ==
    /\ Done
    /\ Count = 2
    /\ edges = <<[source |-> "A", target |-> "B"]>>
    /\ opts.gridSize = 100
    /\ iteration = opts.maxIterations
    /\ iteration >= 20

FirstRoundOver == pc = "cool" /\ iteration = 0

CoincidentAtStart(k, l) ==
    /\ GridX(k, Count, opts) = GridX(l, Count, opts)
    /\ GridY(k, Count, opts) = GridY(l, Count, opts)

Frame(n) == [ref |-> n.ref, id |-> n.id, width |-> n.width,
             height |-> n.height, data |-> n.data]

\* C9: the call changes nothing but x and y: the array keeps its node
\* objects, their order and number, every node keeps id, width, height and
\* data, the edge list is unchanged, and the array returned is that array.
C9_OnlyPositionsChange ==
    /\ Len(nodes) = Len(args.nodes)
    /\ \A k \in 1..Len(nodes) : Frame(nodes[k]) = Frame(args.nodes[k])
    /\ edges = args.edges
    /\ Done => /\ result = nodes
               /\ Len(result) = Len(args.nodes)
               /\ \A k \in 1..Len(result) : Frame(result[k]) = Frame(args.nodes[k])

\* A finished call of at least one round, with an edge, that moved a node.
C9_Witness ==
    /\ Done
    /\ Count >= 2
    /\ Len(edges) >= 1
    /\ opts.maxIterations >= 1
    /\ \E k \in 1..Count : result[k].x # args.nodes[k].x

AfterInitializer == pc = "loop" /\ iteration = 0

\* C10: the Initializer places the node at index i of N nodes at
\* (col * (2 * gridSize + padding), row * (2 * gridSize + padding)) with
\* columns = ceil(sqrt(N)), row = i div columns, col = i mod columns; when
\* 2 * gridSize + padding > 0 the N positions are pairwise distinct.
C10_InitialPlacement ==
    AfterInitializer =>
        /\ \A k \in 1..Count :
              /\ nodes[k].x = GridX(k, Count, opts)
              /\ nodes[k].y = GridY(k, Count, opts)
        /\ Spacing(opts) > 0 =>
              \A k, l \in 1..Count :
                  k # l => <<nodes[k].x, nodes[k].y>> # <<nodes[l].x, nodes[l].y>>

\* The Initializer has placed three or more nodes with a positive spacing.
C10_Witness ==
    /\ AfterInitializer
    /\ Count >= 3
    /\ Spacing(opts) > 0
    /\ nodes[3].y > 0

\* C11: every call, on any number of nodes (none included), any edge list and
\* any maxIterations >= 0, runs exactly maxIterations rounds and then returns
\* its node array: it ends, and stays, returned with the loop counter at
\* maxIterations.
C11_RunsAllRoundsAndReturns ==
    <>[](/\ Done
         /\ iteration = args.opts.maxIterations
         /\ result = nodes)

\* A call on no nodes with an edge and at least one round has returned.
C11_Witness ==
    /\ Done
    /\ Count = 0
    /\ Len(edges) >= 1
    /\ opts.maxIterations >= 1
    /\ iteration = opts.maxIterations

Coincide(a, b) == a.x = b.x /\ a.y = b.y

\* The edge at position k of the edge list names two nodes of the array
\* (possibly the same one) that are at the same position.
EndpointsCoincide(k) ==
    LET s == Find(nodes, edges[k].source)
        t == Find(nodes, edges[k].target)
    IN  s # 0 /\ t # 0 /\ Coincide(nodes[s], nodes[t])

\* C12: at distance exactly 0 no force is computed or applied.  A node at
\* the position of another adds nothing to that node's repulsion; the
\* repulsion turn of a node all others coincide with moves nothing; the
\* attraction turn of an edge whose endpoints coincide, or are one node,
\* moves nothing.
C12_ZeroDistanceNoForce ==
    [][/\ \A i, j \in 1..Count :
             Coincide(nodes[i], nodes[j]) =>
                 RepulsionFrom(nodes[i], nodes[j], opts) = <<0, 0>>
       /\ (/\ pc = "repulse" /\ idx <= Count
           /\ \A j \in 1..Count : Coincide(nodes[idx], nodes[j]))
              => nodes' = nodes
       /\ (pc = "attract" /\ idx <= Len(edges) /\ EndpointsCoincide(idx))
              => nodes' = nodes]_vars

\* The attraction turn of an edge between two different nodes at the same
\* position is over.
C12_Witness ==
    /\ pc = "attract"
    /\ idx = 2
    /\ Count >= 2
    /\ edges[1].source # edges[1].target
    /\ EndpointsCoincide(1)

\* The diagram component has just called the layout engine.
GraphCalled == pc = "init" /\ parser # <<>>

\* The entity types the diagram shows.
ShownTypes == FilteredTypes(parser[1].entityTypes, filter)

\* The type a navigation property leads to: its Type with the alias expanded
\* and the collection wrapper stripped.
ResolvedTarget(navProp) ==
    stripCollection(expandTypeReference(parser[1].namespaceAliases,
                                        navProp.Type))

\* One edge per navigation property of the entity type at index k whose
\* resolved target is one of the identifiers ids.
ResolvedEdgesOf(types, k, ids) ==
    LET navs == types[k].NavigationProperty
        all  == [n \in 1..Len(navs) |->
                    [source |-> getFullEntityTypeName(types[k]),
                     target |-> ResolvedTarget(navs[n])]]
    IN  SelectSeq(all, LAMBDA e : e.target \in ids)

RECURSIVE ResolvedEdges(_, _, _)
ResolvedEdges(types, k, ids) ==
    IF k > Len(types) THEN <<>>
    ELSE ResolvedEdgesOf(types, k, ids) \o ResolvedEdges(types, k + 1, ids)

\* C13: the diagram component hands the engine one node per shown entity
\* type, its id the fully-qualified type name, and one edge per navigation
\* property whose target type resolves to a shown entity type: every edge
\* has a source and a target that are ids of the nodes, the target being
\* the type with its collection wrapper stripped and its alias expanded.
C13_EdgesJoinPassedNodes ==
    GraphCalled =>
        LET ids == {nodes[k].id : k \in 1..Len(nodes)}
        IN  /\ Len(nodes) = Len(ShownTypes)
            /\ \A k \in 1..Len(nodes) :
                  nodes[k].id = getFullEntityTypeName(ShownTypes[k])
            /\ \A k \in 1..Len(edges) :
                  edges[k].source \in ids /\ edges[k].target \in ids
            /\ edges = ResolvedEdges(ShownTypes, 1, ids)

Constructing == pc = "new"

\* The argument is empty or no string.
NoXmlString == xml.type # "string" \/ xml.text.empty

\* The argument is a text the XML parser accepts, whose tree lacks
\* edmx:Edmx, edmx:DataServices or Schema.
LacksElements ==
    /\ ~NoXmlString
    /\ ~xml.text.threw
    /\ ~(xml.text.edmx /\ xml.text.services /\ xml.text.Schema # <<>>)

\* C14: constructing the parser on invalid input throws and yields no
\* parser: 'Invalid input: XML string is required' for an argument that is
\* empty or no string, 'Invalid OData metadata: Missing required elements
\* (edmx:Edmx, edmx:DataServices, or Schema)' for a document that lacks one
\* of them; whenever an Error is thrown there is no parser.
C14_InvalidInputThrows ==
    ~Constructing =>
        /\ NoXmlString => (thrown = InvalidInput /\ parser = <<>>)
        /\ LacksElements => (thrown = MissingElements /\ parser = <<>>)
        /\ thrown # "" => (parser = <<>> /\ pc = "threw")
        /\ thrown = "" => parser # <<>>

\* The constructor has thrown on a document that has edmx:Edmx but not
\* edmx:DataServices.
C14_Witness ==
    /\ pc = "threw"
    /\ LacksElements
    /\ xml.text.edmx
    /\ ~xml.text.services
    /\ thrown = MissingElements

\* The entity types of the document in document order, each as the pair of
\* the index of its schema and its index in the schema, from schema k on.
RECURSIVE Declared(_, _)
Declared(schemas, k) ==
    IF k > Len(schemas) THEN <<>>
    ELSE [t \in 1..Len(schemas[k].EntityType) |-> <<k, t>>]
         \o Declared(schemas, k + 1)

\* entityTypes is the concatenation of the schemas' EntityType lists in
\* document order: the same elements but for Namespace.
InDocumentOrder ==
    LET schemas == xml.text.Schema
        decl    == Declared(schemas, 1)
        types   == parser[1].entityTypes
    IN  /\ Len(types) = Len(decl)
        /\ \A j \in 1..Len(decl) :
              LET e == schemas[decl[j][1]].EntityType[decl[j][2]]
              IN  /\ types[j].Name = e.Name
                  /\ types[j].NavigationProperty = e.NavigationProperty

\* C15, as stated: entityTypes is the concatenation of the EntityType lists
\* of all schemas in document order, and every entity type carries the
\* Namespace of the schema that declares it.
C15_NamespaceOfSchema ==
    pc = "mounted" =>
        /\ InDocumentOrder
        /\ LET schemas == xml.text.Schema
               decl    == Declared(schemas, 1)
           IN  \A j \in 1..Len(decl) :
                   parser[1].entityTypes[j].Namespace
                       = schemas[decl[j][1]].Namespace

\* C15, amended: entityTypes is that concatenation, every entity type of a
\* schema with a non-empty Namespace carries that Namespace, and the entity
\* types of a schema whose Namespace is absent or empty are left as parsed.
C15_NamespaceOfNamedSchema ==
    pc = "mounted" =>
        /\ InDocumentOrder
        /\ LET schemas == xml.text.Schema
               decl    == Declared(schemas, 1)
           IN  \A j \in 1..Len(decl) :
                   LET schema == schemas[decl[j][1]]
                   IN  parser[1].entityTypes[j].Namespace
                           = IF Falsy(schema.Namespace)
                             THEN schema.EntityType[decl[j][2]].Namespace
                             ELSE schema.Namespace

\* A parser built from two schemas with different namespaces, the first
\* declaring two entity types and the second one.
C15_Witness ==
    /\ pc = "mounted"
    /\ Len(xml.text.Schema) = 2
    /\ xml.text.Schema[1].Namespace = Demo
    /\ xml.text.Schema[2].Namespace = TripPin
    /\ Len(xml.text.Schema[1].EntityType) = 2
    /\ Len(xml.text.Schema[2].EntityType) = 1
    /\ Len(parser[1].entityTypes) = 3

----------------------------------------------------------------------------
(* The clamp of the force passes.                                          *)

\* What a step changed of the node at index k, per axis.
MovedX(k) == nodes'[k].x - nodes[k].x

MovedY(k) == nodes'[k].y - nodes[k].y

\* The step is one force application: one turn of the repulsion forEach or
\* one turn of the attraction forEach.
ForceStep ==
    /\ pc \in {"repulse", "attract"}
    /\ pc' = pc
    /\ idx' = idx + 1

\* C16: every single force application, the repulsion update of a node and
\* the attraction update of each endpoint of an edge, changes the node's x by
\* at most maxMovement = 0.5 * gridSize and its y by at most 0.5 * gridSize,
\* for every temperature and every force magnitude.
C16_EachApplicationClamped ==
    [][ForceStep =>
          /\ Len(nodes') = Len(nodes)
          /\ \A k \in 1..Len(nodes) :
                /\ Abs(MovedX(k)) <= MaxMovement(opts)
                /\ Abs(MovedY(k)) <= MaxMovement(opts)]_vars

\* The first attraction of a call has just moved both endpoints of its edge
\* towards each other by the full maxMovement along x: the product of force
\* and temperature was above the clamp.
C16_Witness ==
    /\ pc = "attract"
    /\ idx = 2
    /\ iteration = 0
    /\ Count >= 2
    /\ LET before == RepulsionPass(Initializer(args.nodes, opts), 1,
                                   opts.temperature, opts)
           s == Find(nodes, edges[1].source)
           t == Find(nodes, edges[1].target)
       IN  /\ s # 0 /\ t # 0 /\ s # t
           /\ Abs(nodes[s].x - before[s].x) = MaxMovement(opts)
           /\ nodes[t].x - before[t].x = before[s].x - nodes[s].x

----------------------------------------------------------------------------
(* The displacement of one round.                                          *)

\* The node array as it was when the current round began: the rounds before
\* it, applied to the arguments of the call.
RoundStart ==
    Rounds(Initializer(args.nodes, opts), args.edges, opts.temperature, 0,
           [opts EXCEPT !.maxIterations = iteration])

\* The force passes of the current round have just ended: the snap pass is
\* entered and no node has been snapped yet.
ForcePassesOver == pc = "snap" /\ idx = 1

\* The number of edges that touch the node with this id: both endpoints are
\* present and one of them is the node.
Touching(id) ==
    Cardinality({k \in 1..Len(edges) :
                    /\ Find(nodes, edges[k].source) # 0
                    /\ Find(nodes, edges[k].target) # 0
                    /\ id \in {edges[k].source, edges[k].target}})

\* C17, as stated: in any single round the force passes, repulsion plus
\* attraction, before snapping, move each node by at most
\* maxMovement = 0.5 * gridSize per axis in total, whatever the temperature
\* and however many edges touch the node.
C17_RoundWithinMaxMovement ==
    ForcePassesOver =>
        LET start == RoundStart
        IN  \A k \in 1..Len(nodes) :
                /\ Abs(nodes[k].x - start[k].x) <= MaxMovement(opts)
                /\ Abs(nodes[k].y - start[k].y) <= MaxMovement(opts)

\* C17, amended: in any single round the force passes move each node by at
\* most maxMovement per axis for the repulsion pass and maxMovement per axis
\* more for each edge that touches the node, whatever the temperature.
C17_RoundWithinMaxMovementPerApplication ==
    ForcePassesOver =>
        LET start == RoundStart
        IN  \A k \in 1..Len(nodes) :
                LET bound == (1 + Touching(nodes[k].id)) * MaxMovement(opts)
                IN  /\ Abs(nodes[k].x - start[k].x) <= bound
                    /\ Abs(nodes[k].y - start[k].y) <= bound

\* The force passes of a round have ended and a node touched by two edges
\* is more than maxMovement from where the round found it.
C17_Witness ==
    /\ ForcePassesOver
    /\ LET start == RoundStart
       IN  \E k \in 1..Len(nodes) :
               /\ Touching(nodes[k].id) = 2
               /\ Abs(nodes[k].x - start[k].x) > MaxMovement(opts)

----------------------------------------------------------------------------
(* The attraction step of one edge.                                        *)

\* The edge whose turn it is in the attraction forEach has both endpoints
\* present, distinct and at a distance above 0.
PullingEdge ==
    /\ pc = "attract"
    /\ idx <= Len(edges)
    /\ LET s == Find(nodes, edges[idx].source)
           t == Find(nodes, edges[idx].target)
       IN  /\ s # 0
           /\ t # 0
           /\ s # t
           /\ Distance(nodes[t].x - nodes[s].x, nodes[t].y - nodes[s].y) > 0

\* C18: for every edge with both endpoints present, distinct and at distance
\* > 0 the attraction step displaces the source by a vector v and the target
\* by exactly -v, so the sum of the two endpoints' positions is unchanged by
\* the step, and no other node moves.
C18_EqualAndOpposite ==
    [][PullingEdge =>
          LET s == Find(nodes, edges[idx].source)
              t == Find(nodes, edges[idx].target)
          IN  /\ Len(nodes') = Len(nodes)
              /\ nodes'[t].x - nodes[t].x = -(nodes'[s].x - nodes[s].x)
              /\ nodes'[t].y - nodes[t].y = -(nodes'[s].y - nodes[s].y)
              /\ nodes'[s].x + nodes'[t].x = nodes[s].x + nodes[t].x
              /\ nodes'[s].y + nodes'[t].y = nodes[s].y + nodes[t].y
              /\ \A k \in 1..Len(nodes) : k \notin {s, t} => nodes'[k] = nodes[k]]_vars

\* The first attraction of a call on three nodes has just moved the two
\* distinct endpoints of its edge, along both axes.
C18_Witness ==
    /\ pc = "attract"
    /\ idx = 2
    /\ iteration = 0
    /\ Count = 3
    /\ LET before == RepulsionPass(Initializer(args.nodes, opts), 1,
                                   opts.temperature, opts)
           s == Find(nodes, edges[1].source)
           t == Find(nodes, edges[1].target)
       IN  /\ s # 0 /\ t # 0 /\ s # t
           /\ nodes[s].x # before[s].x
           /\ nodes[s].y # before[s].y
           /\ nodes[t].x # before[t].x
           /\ nodes[t].y # before[t].y

\* C19: attraction is a pull together: for every edge with both endpoints
\* present and distance d > 0, and for every gridSize > 0 and temperature
\* >= 0, the distance between source and target after the edge's attraction
\* step is not greater than the distance before it.
C19_AttractionNeverParts ==
    [][PullingEdge =>
          LET s == Find(nodes, edges[idx].source)
              t == Find(nodes, edges[idx].target)
          IN  SquaredDistance(nodes'[s], nodes'[t])
                  <= SquaredDistance(nodes[s], nodes[t])]_vars

----------------------------------------------------------------------------
(* The grid after the snap pass.                                           *)

\* The snap pass of a round has ended and nothing has moved a node since:
\* before the cooling, at the loop test after it, and at loop exit before
\* centering when a round has run.
SnapPassOver ==
    \/ pc = "cool"
    \/ pc = "loop" /\ iteration >= 1
    \/ pc = "center" /\ opts.maxIterations >= 1

OnGrid(node, o) ==
    /\ node.x % GridSize(o) = 0
    /\ node.y % GridSize(o) = 0

\* C20: at the end of the snap pass of every round, so whenever
\* maxIterations >= 1 at loop exit before centering, every node's x and y
\* are integer multiples of gridSize, whether the node took its rounded
\* position, a spiral candidate or the fallback.
C20_SnappedOnGrid ==
    SnapPassOver => \A k \in 1..Len(nodes) : OnGrid(nodes[k], opts)

\* The nodes as the force passes of the current round left them.
BeforeSnap ==
    AttractionPass(RepulsionPass(RoundStart, 1, currentTemp, opts),
                   edges, 1, currentTemp, opts)

\* A snap pass has just ended in which one node, left off the grid by the
\* forces, took a spiral candidate and another, off the grid as well, its
\* rounded position.
C20_Witness ==
    /\ pc = "cool"
    /\ LET pre == BeforeSnap
           RoundedOf(k) == <<RoundToGrid(pre[k].x, GridSize(opts)),
                           RoundToGrid(pre[k].y, GridSize(opts))>>
       IN  /\ \E k \in 1..Len(nodes) :
                 /\ ~OnGrid(pre[k], opts)
                 /\ <<nodes[k].x, nodes[k].y>> # RoundedOf(k)
           /\ \E k \in 1..Len(nodes) :
                 /\ ~OnGrid(pre[k], opts)
                 /\ <<nodes[k].x, nodes[k].y>> = RoundedOf(k)

----------------------------------------------------------------------------
(* The snap of one node.                                                   *)

\* It is the turn of the node at index idx in the snapping forEach.
SnapTurn == pc = "snap" /\ idx <= Len(nodes)

\* The rounded position of the node at index i of ns.
Rounded(ns, i, o) ==
    <<RoundToGrid(ns[i].x, GridSize(o)), RoundToGrid(ns[i].y, GridSize(o))>>

\* The k-th candidate of the spiral around the rounded position of node i.
Candidate(ns, i, k, o) ==
    <<Rounded(ns, i, o)[1] + SpiralOffsets[k][1] * GridSize(o),
      Rounded(ns, i, o)[2] + SpiralOffsets[k][2] * GridSize(o)>>

\* No other node of ns is within gridSize of position p on both axes.
Free(ns, i, p, o) ==
    \A j \in 1..Len(ns) :
        ns[j].id # ns[i].id =>
            \/ Abs(p[1] - ns[j].x) >= GridSize(o)
            \/ Abs(p[2] - ns[j].y) >= GridSize(o)

\* The candidates of node i that are conflict-free, by their place in the
\* fixed order.
FreeCandidates(ns, i, o) ==
    {k \in 1..Len(SpiralOffsets) : Free(ns, i, Candidate(ns, i, k, o), o)}

Position(node) == <<node.x, node.y>>

\* C21: when a node's rounded position conflicts and the spiral search
\* succeeds, the node is placed at the first candidate in the fixed order
\* that is conflict-free, and at that moment no other node is within
\* gridSize of it on both axes; when the rounded position does not conflict,
\* the node is placed exactly at the rounded position.
C21_FirstFreeCandidate ==
    [][SnapTurn =>
          LET free == FreeCandidates(nodes, idx, opts)
          IN  /\ Len(nodes') = Len(nodes)
              /\ Free(nodes, idx, Rounded(nodes, idx, opts), opts)
                    => Position(nodes'[idx]) = Rounded(nodes, idx, opts)
              /\ (~Free(nodes, idx, Rounded(nodes, idx, opts), opts) /\ free # {})
                    => /\ \E k \in free :
                            /\ \A l \in free : k <= l
                            /\ Position(nodes'[idx]) = Candidate(nodes, idx, k, opts)
                       /\ Free(nodes', idx, Position(nodes'[idx]), opts)]_vars

\* The snapping forEach from index i up to index last.
RECURSIVE SnapThrough(_, _, _, _)
SnapThrough(ns, i, last, o) ==
    IF i > last \/ i > Len(ns) THEN ns
    ELSE SnapThrough(SnapNode(ns, i, o), i + 1, last, o)

\* The nodes of the current round with the first n of them snapped.
SnappedUpTo(ns, n, o) == SnapThrough(ns, 1, n, o)

\* A node has just been snapped whose rounded position conflicted and whose
\* first spiral candidate conflicted as well: it stands at a later one.
C21_Witness ==
    /\ pc = "snap"
    /\ idx >= 2
    /\ idx <= Len(nodes) + 1
    /\ LET pre == SnappedUpTo(BeforeSnap, idx - 2, opts)
           i   == idx - 1
       IN  /\ ~Free(pre, i, Rounded(pre, i, opts), opts)
           /\ ~Free(pre, i, Candidate(pre, i, 1, opts), opts)
           /\ Position(nodes[i]) # Rounded(pre, i, opts)

\* The rounded position of the node whose turn it is conflicts and so does
\* every spiral candidate of radius 1..3.
SpiralExhausted ==
    /\ SnapTurn
    /\ ~Free(nodes, idx, Rounded(nodes, idx, opts), opts)
    /\ FreeCandidates(nodes, idx, opts) = {}

\* C22: when every spiral candidate of radius 1..3 conflicts with some other
\* node, the node is placed at its original rounded position, still
\* conflicting, no error is raised, and the round continues with the next
\* node.
C22_FallbackToRounded ==
    [][SpiralExhausted =>
          /\ Position(nodes'[idx]) = Rounded(nodes, idx, opts)
          /\ ~Free(nodes', idx, Position(nodes'[idx]), opts)
          /\ thrown' = ""
          /\ pc' = "snap"
          /\ idx' = idx + 1]_vars

\* A node has just been snapped and stands within gridSize of another node
\* on both axes: it found no free cell and kept its rounded position, and
\* the snap pass goes on.
C22_Witness ==
    /\ pc = "snap"
    /\ idx >= 2
    /\ idx <= Len(nodes)
    /\ ~Free(nodes, idx - 1, Position(nodes[idx - 1]), opts)
    /\ OnGrid(nodes[idx - 1], opts)
    /\ thrown = ""

\* C23: the spiral search is bounded: for one node it tests at most
\* 8 + 16 + 24 = 48 candidates, and every candidate, hence the node's snapped
\* position, lies at most 3 grid cells from the rounded position on each
\* axis, so a snap never moves a node more than 3.5 * gridSize per axis from
\* its pre-snap position.
C23_SnapWithinSpiral ==
    [][SnapTurn =>
          /\ Len(SpiralOffsets) = 8 + 16 + 24
          /\ \A k \in 1..Len(SpiralOffsets) :
                /\ Abs(Candidate(nodes, idx, k, opts)[1]
                         - Rounded(nodes, idx, opts)[1]) <= 3 * GridSize(opts)
                /\ Abs(Candidate(nodes, idx, k, opts)[2]
                         - Rounded(nodes, idx, opts)[2]) <= 3 * GridSize(opts)
          /\ Abs(nodes'[idx].x - Rounded(nodes, idx, opts)[1]) <= 3 * GridSize(opts)
          /\ Abs(nodes'[idx].y - Rounded(nodes, idx, opts)[2]) <= 3 * GridSize(opts)
          /\ 2 * Abs(nodes'[idx].x - nodes[idx].x) <= 7 * GridSize(opts)
          /\ 2 * Abs(nodes'[idx].y - nodes[idx].y) <= 7 * GridSize(opts)]_vars

\* In the first round of a call whose nodes all start on one point and feel
\* no force, a node has just been snapped 3 grid cells away from that point:
\* the cells of radius 1 and 2 were taken.
C23_Witness ==
    /\ pc = "snap"
    /\ iteration = 0
    /\ idx >= 2
    /\ 2 * opts.gridSize + opts.padding = 0
    /\ InitialX(idx - 2, Len(nodes), opts) = 0
    /\ Abs(nodes[idx - 1].x) = 3 * GridSize(opts)

----------------------------------------------------------------------------
(* The temperature.                                                        *)

\* temperature * coolingFactor^k, formed as the code forms it, by k
\* multiplications of a number of the temperature's resolution.
RECURSIVE Geometric(_, _, _)
Geometric(temperature, coolingFactor, k) ==
    IF k = 0 THEN temperature
    ELSE (Geometric(temperature, coolingFactor, k - 1) * coolingFactor)
             \div FactorScale

\* C24: the temperature used by both the repulsion and the attraction pass
\* of round k (0-based) equals temperature * coolingFactor^k: it starts at
\* the configured temperature, is multiplied by coolingFactor exactly once
\* per round, after the snap pass, and for 0 < coolingFactor <= 1 never
\* increases.
C24_GeometricCooling ==
    [][/\ pc \in {"repulse", "attract"} =>
             currentTemp = Geometric(opts.temperature, opts.coolingFactor,
                                     iteration)
       /\ (pc # "init" /\ currentTemp' # currentTemp) =>
             /\ pc = "cool"
             /\ pc' = "loop"
             /\ iteration' = iteration + 1
             /\ currentTemp' * FactorScale <= currentTemp * opts.coolingFactor
             /\ currentTemp' * FactorScale
                   > currentTemp * opts.coolingFactor - FactorScale
       /\ (pc = "init") => currentTemp' = opts.temperature
       /\ (pc # "init" /\ opts.coolingFactor > 0
             /\ opts.coolingFactor <= FactorScale) =>
             currentTemp' <= currentTemp]_vars

\* The attraction of the third round has acted at the default temperature
\* cooled twice by the default factor.
C24_Witness ==
    /\ pc = "attract"
    /\ idx = 2
    /\ iteration = 2
    /\ opts.coolingFactor = DefaultCoolingFactor
    /\ opts.temperature = DefaultTemperature * TempScale
    /\ currentTemp * FactorScale * FactorScale
          = opts.temperature * opts.coolingFactor * opts.coolingFactor

----------------------------------------------------------------------------
(* The order of the phases.                                                *)

\* What a step from each place of the function body may do.
PhaseStep ==
    /\ pc = "init" =>
          /\ pc' = "loop"
          /\ iteration' = 0
          /\ nodes' = Initializer(nodes, opts)
    /\ pc = "loop" =>
          /\ nodes' = nodes
          /\ iteration' = iteration
          /\ pc' = (IF iteration < opts.maxIterations
                    THEN "repulse" ELSE "center")
          /\ pc' = "repulse" => idx' = 1
    /\ pc = "repulse" =>
          /\ iteration' = iteration
          /\ IF idx <= Len(nodes)
             THEN pc' = "repulse" /\ idx' = idx + 1
             ELSE pc' = "attract" /\ idx' = 1 /\ nodes' = nodes
    /\ pc = "attract" =>
          /\ iteration' = iteration
          /\ IF idx <= Len(edges)
             THEN pc' = "attract" /\ idx' = idx + 1
             ELSE pc' = "snap" /\ idx' = 1 /\ nodes' = nodes
    /\ pc = "snap" =>
          /\ iteration' = iteration
          /\ IF idx <= Len(nodes)
             THEN pc' = "snap" /\ idx' = idx + 1
             ELSE pc' = "cool" /\ nodes' = nodes
    /\ pc = "cool" =>
          /\ pc' = "loop"
          /\ iteration' = iteration + 1
          /\ nodes' = nodes
    /\ pc = "center" =>
          /\ iteration = opts.maxIterations
          /\ pc' = "return"
          /\ nodes' = Center(nodes, opts)
    /\ pc = "return" =>
          /\ pc' = "done"
          /\ nodes' = nodes

\* C25: the phases run strictly in order with no branching: the Initializer
\* runs once, first; in every round the repulsion pass over all nodes
\* completes before the attraction pass over all edges, which completes
\* before the snap pass over all nodes, which completes before cooling; the
\* Centering Normalizer runs exactly once, after the last round, and never
\* between rounds.
C25_PhasesInOrder ==
    [][/\ pc \in {"init", "loop", "repulse", "attract", "snap", "cool",
                  "center", "return"}
       /\ PhaseStep
       /\ pc' # "init"]_vars

\* The centering is reached after two full rounds on several nodes and an
\* edge.
C25_Witness ==
    /\ pc = "center"
    /\ iteration = 2
    /\ opts.maxIterations = 2
    /\ Count >= 2
    /\ Len(edges) >= 1
    /\ \A k \in 1..Len(nodes) : OnGrid(nodes[k], opts)

----------------------------------------------------------------------------
(* The centering as a translation.                                         *)

\* C26: the Centering Normalizer is a pure translation: every node is
\* shifted by the same vector (padding - minX, padding - minY), so for every
\* pair of nodes the differences of their x and of their y coordinates are
\* the same before and after centering.
C26_PureTranslation ==
    [][(pc = "center" /\ Len(nodes) >= 1) =>
          /\ Len(nodes') = Len(nodes)
          /\ \A k \in 1..Len(nodes) :
                /\ nodes'[k].x - nodes[k].x = Padding(opts) - MinX(nodes)
                /\ nodes'[k].y - nodes[k].y = Padding(opts) - MinY(nodes)
          /\ \A i, j \in 1..Len(nodes) :
                /\ nodes'[i].x - nodes'[j].x = nodes[i].x - nodes[j].x
                /\ nodes'[i].y - nodes'[j].y = nodes[i].y - nodes[j].y]_vars

\* The centering has just shifted three nodes, no two of them on one point,
\* along both axes.
C26_Witness ==
    /\ pc = "return"
    /\ Count = 3
    /\ opts.maxIterations >= 1
    /\ LET pre == RoundStart
       IN  /\ nodes[1].x # pre[1].x
           /\ nodes[1].y # pre[1].y
           /\ \A i, j \in 1..Count :
                 i # j => Position(nodes[i]) # Position(nodes[j])

----------------------------------------------------------------------------
(* What the nodes carry on entry.                                          *)

Ids(ns) == [k \in 1..Len(ns) |-> ns[k].id]

\* C27: the output does not depend on the x and y (nor width, height, data)
\* that the nodes carry on entry: two calls whose node lists have the same
\* ids in the same order, the same edges and options, but different entry
\* positions, return identical positions; in particular running the layout
\* again on its own output returns the same positions.
C27_EntryPositionsIgnored ==
    \A i, j \in 1..Len(history) :
        (/\ Ids(history[i].args.nodes) = Ids(history[j].args.nodes)
         /\ history[i].args.edges = history[j].args.edges
         /\ history[i].args.opts = history[j].args.opts)
            => Positions(history[i].out) = Positions(history[j].out)

\* Three completed calls with the same options: on fresh nodes, on nodes
\* with other positions, sizes and data, and on the output of a call.
C27_Witness ==
    /\ Len(history) = 3
    /\ history[1].args.nodes = NodeArray(2)
    /\ history[2].args.nodes = PlacedArray(2)
    /\ history[3].args.nodes = history[2].out
    /\ history[1].args.opts = history[2].args.opts
    /\ history[1].args.opts = history[3].args.opts
    /\ Positions(history[3].args.nodes) # Positions(NodeArray(2))
    /\ Positions(history[3].out) = Positions(history[1].out)

----------------------------------------------------------------------------
(* Conflicts left by the snap pass.                                        *)

\* The nodes at indices i and j stand within gridSize of each other on both
\* axes.
InConflict(ns, i, j, o) ==
    /\ Abs(ns[i].x - ns[j].x) < GridSize(o)
    /\ Abs(ns[i].y - ns[j].y) < GridSize(o)

\* C28: at the end of every snap pass, any two distinct nodes that conflict
\* are such that the one later in node order exhausted its spiral search and
\* fell back; in a round where no node falls back, all nodes occupy pairwise
\* distinct grid points after the snap pass.  Stated turn by turn: a turn
\* moves no node but its own, a node that conflicts with any other node when
\* its turn is over exhausted its search, and the end of the pass moves
\* nothing; so of two nodes in conflict at the end the later one, whose turn
\* found the earlier one where it still stands, fell back.
C28_ConflictOnlyByFallback ==
    [][/\ SnapTurn =>
            /\ \A k \in 1..Len(nodes) : k # idx => nodes'[k] = nodes[k]
            /\ (\E k \in 1..Len(nodes) :
                    k # idx /\ InConflict(nodes', idx, k, opts))
                  => SpiralExhausted
       /\ (pc = "snap" /\ ~SnapTurn) => (pc' = "cool" /\ nodes' = nodes)]_vars

\* A snap pass has ended with two nodes on one grid point and with other
\* nodes that the spiral search set apart.
C28_Witness ==
    /\ pc = "cool"
    /\ \A k \in 1..Len(nodes) : OnGrid(nodes[k], opts)
    /\ \E i, j \in 1..Len(nodes) :
          /\ i < j
          /\ InConflict(nodes, i, j, opts)
          /\ Position(nodes[i]) = Position(nodes[j])
    /\ \E i, j \in 1..Len(nodes) :
          /\ i < j
          /\ ~InConflict(nodes, i, j, opts)

----------------------------------------------------------------------------
(* The direction of an edge.                                               *)

\* The edge list with the edge at index k turned round, in its place.
ReverseAt(es, k) ==
    [es EXCEPT ![k] = [source |-> es[k].target, target |-> es[k].source]]

\* C29: edge direction does not affect the layout: replacing any edge (s, t)
\* by (t, s) at the same position in the edge list yields identical output
\* positions.
C29_EdgeDirectionIgnored ==
    Done => \A k \in 1..Len(args.edges) :
                Positions(result) =
                    Positions(Layout(args.nodes, ReverseAt(args.edges, k),
                                     args.opts))

\* A finished call with an edge between two different nodes that changes
\* the returned positions: without the edge the call returns other
\* positions, with the edge turned round it returns the same.
C29_Witness ==
    /\ Done
    /\ \E k \in 1..Len(args.edges) :
          /\ ~Dangling(args.nodes, args.edges[k])
          /\ args.edges[k].source # args.edges[k].target
          /\ Positions(result) #
                 Positions(Layout(args.nodes, RemoveAt(args.edges, k),
                                  args.opts))
          /\ Positions(result) =
                 Positions(Layout(args.nodes, ReverseAt(args.edges, k),
                                  args.opts))

----------------------------------------------------------------------------
(* The states of the uploader.                                             *)

\* C30: for any sequence of file selections and any interleaving of the
\* onload and onerror callbacks of the reads, two reads in flight at once
\* included, the component never holds a non-null parser together with a
\* non-null error.
C30_ParserOrErrorNeverBoth == ~(parser # <<>> /\ error # <<>>)

====
